---- MODULE Spec2Model ----
(***************************************************************************)
(* Model of streamlit_price_change_from_close.py: main() parses the text   *)
(* area into a symbol list and calls calculate_stock_returns, which loops  *)
(* over the symbols, asks the price history provider for hourly bars,      *)
(* looks up the target-time close and the previous day's last close,       *)
(* appends a row per symbol that did not raise, and sorts the table.       *)
(*                                                                         *)
(* Encoding.  A date is a day ordinal whose weekday is (day % 7), 0 being  *)
(* Monday as in datetime.weekday().  A timestamp is an instant counted in  *)
(* hours of US Eastern time (day * 24 + hour; hourly bars all share one    *)
(* minute mark, so a time of day is its hour).  A frame's tz is the offset *)
(* in hours of its index's time zone from US Eastern.  A close is a number *)
(* of thousandths; a value rounded to 2 decimals is a number of            *)
(* hundredths.  A text is a sequence of one-character strings.  The date   *)
(* and time strings that main formats and calculate_stock_returns parses   *)
(* are not modelled: comparison_date is the day and comparison_time the    *)
(* hour they denote.                                                       *)
(***************************************************************************)
EXTENDS Integers, Sequences, FiniteSets, TLC

VARIABLES
    pc,               \* position: "main", "start", "loop", "fetch", "done"
    stock_input,      \* main: the text area's content
    stock_list,       \* calculate_stock_returns: its stock_list argument
    comparison_date,  \* the selected date (target_date after strptime)
    comparison_time,  \* the selected time of day
    provider,         \* the provider's data: ticker -> response
    prev_day,         \* the comparison day
    idx,              \* number of symbols whose loop iteration has finished
    results,          \* the rows appended so far, in input order
    progress,         \* the progress reports issued so far
    calls,            \* the provider requests made so far
    target_date_data, \* local of the loop body (line 63/64)
    prev_day_data,    \* local of the loop body (line 68)
    df_results,       \* the returned table
    warning           \* the st.warning shown, "" for none

vars == <<pc, stock_input, stock_list, comparison_date, comparison_time,
          provider, prev_day, idx, results, progress, calls,
          target_date_data, prev_day_data, df_results, warning>>

----------------------------------------------------------------------------
(* Bounds of the model *)

MaxSymbols == 3
MaxBars == 3
MaxLen == 3

----------------------------------------------------------------------------
(* Helpers *)

Range(s) == {s[i] : i \in 1..Len(s)}

SeqsUpTo(S, n) == UNION {[1..k -> S] : k \in 0..n}

RECURSIVE FilterSeq(_, _)
\* the subsequence of s at the indices in keep
FilterSeq(s, keep) ==
    IF s = <<>> THEN <<>>
    ELSE LET rest == FilterSeq(Tail(s), {i - 1 : i \in keep \ {1}})
         IN IF 1 \in keep THEN <<Head(s)>> \o rest ELSE rest

\* round num/den (den > 0) to the nearest integer, halves to even
RoundHalfEven(num, den) ==
    LET q == num \div den
        r == num % den
    IN IF 2 * r < den THEN q
       ELSE IF 2 * r > den THEN q + 1
       ELSE IF q % 2 = 0 THEN q ELSE q + 1

\* round(x, 2) of a close given in thousandths: hundredths
Round2(x) == RoundHalfEven(x, 10)

----------------------------------------------------------------------------
(* Floating-point results: a finite number of hundredths, inf or nan *)

Fin(v) == [kind |-> "fin", v |-> v]
Inf == [kind |-> "inf", v |-> 0]
NaN == [kind |-> "nan", v |-> 0]

\* a >= b on floats: false whenever either side is nan
FloatGE(a, b) ==
    /\ a.kind # "nan"
    /\ b.kind # "nan"
    /\ \/ a.kind = "inf"
       \/ a.kind = "fin" /\ b.kind = "fin" /\ a.v >= b.v

\* round(((t - p) / p) * 100, 2) on numpy floats: dividing by 0.0 raises
\* nothing and gives inf (t > 0) or nan (t = 0)
ReturnsPct(t, p) ==
    IF p # 0 THEN Fin(RoundHalfEven(10000 * (t - p), p))
    ELSE IF t = 0 THEN NaN ELSE Inf

----------------------------------------------------------------------------
(* Dates and times *)

Weekday(d) == d % 7

\* variant: the check misses Saturday
IsWeekendMutant(d) == Weekday(d) > 5
\* target_date.weekday() >= 5
IsWeekend(d) == Weekday(d) >= 5

\* variant: Monday is not treated specially
PrevDayMutant(d) == d - 1
\* lines 34-37
PrevDay(d) == IF Weekday(d) = 0 THEN d - 3 ELSE d - 1

\* index.strftime('%Y-%m-%d') of an instant in a frame whose zone is tz
LocalDate(ts, tz) == (ts + tz) \div 24
\* index.strftime('%H:%M') of an instant in a frame whose zone is tz
LocalTime(ts, tz) == (ts + tz) % 24

Eastern == 0

\* frame.index.tz_convert('America/New_York'): same instants, Eastern zone
TzConvert(frame) == [tz |-> Eastern, bars |-> frame.bars]

----------------------------------------------------------------------------
(* The price history provider *)

Raised == [raised |-> TRUE, tz |-> 0, bars |-> <<>>]

\* yf.Ticker(symbol).history(start, end, interval='1h'): raises, or returns
\* the symbol's bars whose date in the exchange's zone is in [start, end)
History(symbol, start, end) ==
    IF symbol \notin DOMAIN provider THEN Raised
    ELSE LET r == provider[symbol]
         IN IF r.raised THEN Raised
            ELSE [raised |-> FALSE, tz |-> r.tz,
                  bars |-> FilterSeq(r.bars,
                     {i \in 1..Len(r.bars) :
                        /\ LocalDate(r.bars[i].ts, r.tz) >= start
                        /\ LocalDate(r.bars[i].ts, r.tz) < end})]

----------------------------------------------------------------------------
(* The loop body's lookups *)

\* ticker[ticker.index.strftime('%Y-%m-%d') == day.strftime('%Y-%m-%d')]
OnDate(ticker, day) ==
    [tz |-> ticker.tz,
     bars |-> FilterSeq(ticker.bars,
        {i \in 1..Len(ticker.bars) : LocalDate(ticker.bars[i].ts, ticker.tz) = day})]

\* variant: the time of day is not compared
TargetTimeRowsMutant(frame, time) == frame.bars
\* target_date_data[target_date_data.index.strftime('%H:%M') == comparison_time]
TargetTimeRows(frame, time) ==
    FilterSeq(frame.bars,
        {i \in 1..Len(frame.bars) : LocalTime(frame.bars[i].ts, frame.tz) = time})

\* variant: iloc[0] in place of iloc[-1]
LastRowMutant(frame) == frame.bars[1]
\* frame.iloc[-1]
LastRow(frame) == frame.bars[Len(frame.bars)]

\* variant: idx in place of idx + 1
ProgressReportMutant(i, list) ==
    [completed |-> i, total |-> Len(list), symbol |-> list[i + 1]]
\* progress_bar.progress((idx + 1) / len(stock_list)) and the status text
ProgressReport(i, list) ==
    [completed |-> i + 1, total |-> Len(list), symbol |-> list[i + 1]]

----------------------------------------------------------------------------
(* The sort *)

Perms(n) == {f \in [1..n -> 1..n] : \A i, j \in 1..n : i # j => f[i] # f[j]}

\* df.sort_values('Return (%)', ascending=False) with the default
\* kind='quicksort', which is not a stable sort: NaN rows go last in their
\* original order, the others come in descending order, ties in any order
SortValues(rows) ==
    LET n == Len(rows)
        nonNan == {i \in 1..n : rows[i].Return.kind # "nan"}
        k == Cardinality(nonNan)
    IN {[i \in 1..n |-> rows[f[i]]] : f \in
          {g \in Perms(n) :
              /\ \A i \in 1..k : g[i] \in nonNan
              /\ \A i \in 1..(k - 1) : FloatGE(rows[g[i]].Return, rows[g[i + 1]].Return)
              /\ \A i, j \in (k + 1)..n : i < j => g[i] < g[j]}}

----------------------------------------------------------------------------
(* main: the text area *)

IsSpace(c) == c \in {" "}

RECURSIVE LStrip(_)
LStrip(s) == IF s # <<>> /\ IsSpace(Head(s)) THEN LStrip(Tail(s)) ELSE s

RECURSIVE RStrip(_)
RStrip(s) ==
    IF s # <<>> /\ IsSpace(s[Len(s)]) THEN RStrip(SubSeq(s, 1, Len(s) - 1)) ELSE s

\* str.strip()
Strip(s) == RStrip(LStrip(s))

UpperChar(c) == IF c = "a" THEN "A" ELSE IF c = "m" THEN "M" ELSE c

\* str.upper()
Upper(s) == [i \in 1..Len(s) |-> UpperChar(s[i])]

RECURSIVE SplitLines(_, _)
\* str.split('\n'): cur is the line being read
SplitLines(s, cur) ==
    IF s = <<>> THEN <<cur>>
    ELSE IF Head(s) = "\n" THEN <<cur>> \o SplitLines(Tail(s), <<>>)
    ELSE SplitLines(Tail(s), Append(cur, Head(s)))

\* [s.strip().upper() for s in stock_input.split('\n') if s.strip()]
ParseSymbols(text) ==
    IF text = <<>> THEN <<>>
    ELSE LET lines == SplitLines(text, <<>>)
             kept == FilterSeq(lines, {i \in 1..Len(lines) : Strip(lines[i]) # <<>>})
         IN [i \in 1..Len(kept) |-> Upper(Strip(kept[i]))]

----------------------------------------------------------------------------
(* Actions *)

NoFrame == [tz |-> Eastern, bars |-> <<>>]

\* main, lines 127-169: the text area is parsed and the button is clicked
Main ==
    /\ pc = "main"
    /\ LET stocks_list == ParseSymbols(stock_input)
       IN IF stocks_list = <<>>
          THEN /\ warning' = "nosymbols"
               /\ pc' = "done"
               /\ UNCHANGED stock_list
          ELSE /\ stock_list' = stocks_list
               /\ pc' = "start"
               /\ UNCHANGED warning
    /\ UNCHANGED <<stock_input, comparison_date, comparison_time, provider,
                   prev_day, idx, results, progress, calls, target_date_data,
                   prev_day_data, df_results>>

\* calculate_stock_returns, lines 28-48: the weekend check and the comparison day
Start ==
    /\ pc = "start"
    /\ IF IsWeekend(comparison_date)
       THEN /\ warning' = "weekend"
            /\ df_results' = <<>>
            /\ pc' = "done"
            /\ UNCHANGED <<prev_day, results>>
       ELSE /\ prev_day' = PrevDay(comparison_date)
            /\ results' = <<>>
            /\ pc' = "loop"
            /\ UNCHANGED <<warning, df_results>>
    /\ UNCHANGED <<stock_input, stock_list, comparison_date, comparison_time,
                   provider, idx, progress, calls, target_date_data, prev_day_data>>

\* lines 50-55: the loop takes the next symbol and reports progress
ReportProgress ==
    /\ pc = "loop"
    /\ idx < Len(stock_list)
    /\ progress' = Append(progress, ProgressReport(idx, stock_list))
    /\ pc' = "fetch"
    /\ UNCHANGED <<stock_input, stock_list, comparison_date, comparison_time,
                   provider, prev_day, idx, results, calls, target_date_data,
                   prev_day_data, df_results, warning>>

\* lines 59-80: the fetch, the two lookups and the append; any exception
\* ends the iteration with what was assigned before it
ProcessSymbol ==
    /\ pc = "fetch"
    /\ LET symbol == stock_list[idx + 1]
           start == prev_day
           end == comparison_date + 1
           ticker == History(symbol, start, end)
           tdd == TzConvert(OnDate(ticker, comparison_date))
           atTime == TargetTimeRows(tdd, comparison_time)
           pdd == OnDate(ticker, prev_day)
       IN /\ calls' = Append(calls, [symbol |-> symbol, start |-> start, end |-> end])
          /\ IF ticker.raised
             THEN UNCHANGED <<target_date_data, prev_day_data, results>>
             ELSE IF atTime = <<>>
             THEN /\ target_date_data' = tdd
                  /\ UNCHANGED <<prev_day_data, results>>
             ELSE IF pdd.bars = <<>>
             THEN /\ target_date_data' = tdd
                  /\ prev_day_data' = pdd
                  /\ UNCHANGED results
             ELSE LET target_time_price == atTime[1].Close
                      prev_day_close == LastRow(pdd).Close
                  IN /\ target_date_data' = tdd
                     /\ prev_day_data' = pdd
                     /\ results' = Append(results,
                           [Symbol |-> symbol,
                            Previous_Close |-> Round2(prev_day_close),
                            Target_Price |-> Round2(target_time_price),
                            Return |-> ReturnsPct(target_time_price, prev_day_close)])
    /\ idx' = idx + 1
    /\ pc' = "loop"
    /\ UNCHANGED <<stock_input, stock_list, comparison_date, comparison_time,
                   provider, prev_day, progress, df_results, warning>>

\* lines 82-95: after the loop, the empty check, the sort and the return
Finish ==
    /\ pc = "loop"
    /\ idx = Len(stock_list)
    /\ IF results = <<>>
       THEN /\ warning' = "noresults"
            /\ df_results' = <<>>
       ELSE /\ df_results' \in SortValues(results)
            /\ UNCHANGED warning
    /\ pc' = "done"
    /\ UNCHANGED <<stock_input, stock_list, comparison_date, comparison_time,
                   provider, prev_day, idx, results, progress, calls,
                   target_date_data, prev_day_data>>

Next == Main \/ Start \/ ReportProgress \/ ProcessSymbol \/ Finish

----------------------------------------------------------------------------
(* Inputs *)

A == <<"A">>
M == <<"M">>
Tickers == {A, M}

\* the trading day before d
PrecedingWeekday(d) == CHOOSE e \in {d - 1, d - 2, d - 3} :
    /\ Weekday(e) < 5
    /\ \A f \in {d - 1, d - 2, d - 3} : Weekday(f) < 5 => f <= e

Bar(day, hour, close) == [ts |-> day * 24 + hour, Close |-> close]

Response(tz, bars) == [raised |-> FALSE, tz |-> tz, bars |-> bars]

\* Eastern-time responses with at most one bar on the preceding trading day
\* and at most one bar on day d, at time t or at another time
DailyResponses(d, t, prevCloses, targetCloses) ==
    {Raised} \cup
    {Response(Eastern, p \o c) :
        p \in {<<>>} \cup {<<Bar(PrecedingWeekday(d), 15, x)>> : x \in prevCloses},
        c \in {<<>>} \cup {<<Bar(d, h, x)>> : h \in {t, 12}, x \in targetCloses}}

\* responses in any zone of tzs with up to MaxBars bars, in any order
AnyResponses(days, hours, closes, tzs) ==
    {Raised} \cup
    {Response(tz, bars) : tz \in tzs,
        bars \in SeqsUpTo({Bar(d, h, x) : d \in days, h \in hours, x \in closes}, MaxBars)}

\* worlds[d, t]: the provider data to choose from on date d at time t
InitWith(texts, lists, dates, times, worlds) ==
    /\ comparison_date \in dates
    /\ comparison_time \in times
    /\ provider \in worlds[comparison_date, comparison_time]
    /\ \/ pc = "main" /\ stock_input \in texts /\ stock_list = <<>>
       \/ pc = "start" /\ stock_input = <<>> /\ stock_list \in lists
    /\ prev_day = 0
    /\ idx = 0
    /\ results = <<>>
    /\ progress = <<>>
    /\ calls = <<>>
    /\ target_date_data = NoFrame
    /\ prev_day_data = NoFrame
    /\ df_results = <<>>
    /\ warning = ""

\* a batch of symbols on every day of a week
BatchWorlds(d, t) ==
    {[s \in Tickers |-> IF s = A THEN a ELSE m] :
        a \in DailyResponses(d, t, {0, 1000, 1100}, {0, 1000, 1100}),
        m \in DailyResponses(d, t, {1000}, {1100})}

Init ==
    InitWith({<<"a", "\n", "M">>, <<" ">>}, SeqsUpTo(Tickers, MaxSymbols),
             7..13, {15}, [d \in 7..13, t \in {15} |-> BatchWorlds(d, t)])

Spec == Init /\ [][Next]_vars

\* one symbol, bars in any order and zone
BarWorlds(d, t) ==
    {[s \in Tickers |-> IF s = A THEN a ELSE Raised] :
        a \in AnyResponses({PrecedingWeekday(d), d}, {9, 15}, {0, 1000, 1004},
                          {Eastern, 14})}

InitBars == InitWith({<<"a">>, <<>>}, {<<>>, <<A>>}, {7, 8}, {15},
                     [d \in {7, 8}, t \in {15} |-> BarWorlds(d, t)])

SpecBars == InitBars /\ [][Next]_vars

\* any text in the text area
TextWorlds(d, t) ==
    {[s \in Tickers |->
        Response(Eastern, <<Bar(PrecedingWeekday(d), 15, 1000), Bar(d, t, 1100)>>)]}

InitText ==
    InitWith(SeqsUpTo({"a", "A", "M", " ", "\n"}, MaxLen), {<<A>>},
             {8, 12}, {15}, [d \in {8, 12}, t \in {15} |-> TextWorlds(d, t)])

SpecText == InitText /\ [][Next]_vars

----------------------------------------------------------------------------
(* Properties *)

Abs(x) == IF x < 0 THEN 0 - x ELSE x

RowsOf == Range(results) \cup Range(df_results)

Occurrences(seq, x) == Cardinality({i \in 1..Len(seq) : seq[i] = x})

RowsFor(table, s) == Cardinality({i \in 1..Len(table) : table[i].Symbol = s})

\* the comparison day the specification states for a weekday d
StatedComparisonDay(d) == IF d % 7 = 0 THEN d - 3 ELSE d - 1

\* calculate_stock_returns was entered and has returned
Returned == pc = "done" /\ warning # "nosymbols"

\* bar i of response r is in the target set and at the target time
IsTargetBar(r, i) ==
    /\ LocalDate(r.bars[i].ts, r.tz) = comparison_date
    /\ LocalTime(r.bars[i].ts, Eastern) = comparison_time

\* bar i of response r is in the previous set
IsPrevBar(r, i) ==
    LocalDate(r.bars[i].ts, r.tz) = StatedComparisonDay(comparison_date)

\* none of the four failures happens for symbol s
Succeeds(s) ==
    /\ s \in DOMAIN provider
    /\ ~provider[s].raised
    /\ provider[s].bars # <<>>
    /\ \E i \in 1..Len(provider[s].bars) : IsTargetBar(provider[s], i)
    /\ \E i \in 1..Len(provider[s].bars) : IsPrevBar(provider[s], i)

\* C1: on a weekday, the returned table has one row per occurrence of a
\* symbol that succeeded and none for a symbol whose provider call raised,
\* returned no bars, had no bar at the target time on the target date or no
\* bar on the comparison day; every symbol is attempted whatever happened to
\* the ones before it, and the table has at most as many rows as the input
C1_OneRowPerSuccess ==
    (Returned /\ Weekday(comparison_date) < 5) =>
        /\ Len(calls) = Len(stock_list)
        /\ \A k \in 1..Len(calls) : calls[k].symbol = stock_list[k]
        /\ \A s \in Range(stock_list) \cup {df_results[i].Symbol : i \in 1..Len(df_results)} :
              RowsFor(df_results, s) =
                 IF Succeeds(s) THEN Occurrences(stock_list, s) ELSE 0
        /\ Len(df_results) <= Len(stock_list)
        /\ (\A i \in 1..Len(stock_list) : ~Succeeds(stock_list[i])) => df_results = <<>>

C1_Witness ==
    /\ Returned
    /\ Weekday(comparison_date) < 5
    /\ \E i, j \in 1..Len(stock_list) :
          i < j /\ ~Succeeds(stock_list[i]) /\ Succeeds(stock_list[j])
    /\ Len(df_results) >= 1
    /\ Len(df_results) < Len(stock_list)

\* ret is round(((t - p) / p) * 100, 2) in hundredths, or the float that a
\* division by zero gives
IsReturnOf(ret, t, p) ==
    IF p = 0 THEN ret.kind = (IF t = 0 THEN "nan" ELSE "inf")
    ELSE ret.kind = "fin" /\ 2 * Abs(ret.v * p - 10000 * (t - p)) <= p

\* x in hundredths is the close c in thousandths rounded to 2 decimals
IsRounded(x, c) == Abs(10 * x - c) <= 5

\* the row comes from target bar i and previous bar j of response r
RowFrom(row, r, i, j) ==
    /\ IsRounded(row.Target_Price, r.bars[i].Close)
    /\ IsRounded(row.Previous_Close, r.bars[j].Close)
    /\ IsReturnOf(row.Return, r.bars[i].Close, r.bars[j].Close)

C3_WeekendNoFetch ==
    Weekday(comparison_date) >= 5 =>
        /\ calls = <<>>
        /\ progress = <<>>
        /\ results = <<>>
        /\ df_results = <<>>
        /\ pc \notin {"loop", "fetch"}

C3_Witness ==
    /\ pc = "done"
    /\ Weekday(comparison_date) >= 5
    /\ warning = "weekend"
    /\ Len(stock_list) >= 2

\* C4: on a weekday the comparison day is 3 days before a Monday and 1 day
\* before any other day, and every provider request is for the range from
\* the comparison day to the day after the target date
C4_ComparisonDay ==
    Weekday(comparison_date) < 5 =>
        /\ pc \in {"loop", "fetch"} => prev_day = StatedComparisonDay(comparison_date)
        /\ \A k \in 1..Len(calls) :
              /\ calls[k].start = StatedComparisonDay(comparison_date)
              /\ calls[k].end = comparison_date + 1
              /\ prev_day = calls[k].start

C4_Witness ==
    /\ Weekday(comparison_date) = 0
    /\ calls # <<>>
    /\ calls[1].start = comparison_date - 3
    /\ results # <<>>

\* C5 as stated: the rows of the returned table are in descending order of
\* Return, each at least the next
C5_SortedDescending ==
    pc = "done" =>
        \A i \in 1..(Len(df_results) - 1) :
            FloatGE(df_results[i].Return, df_results[i + 1].Return)

\* C6 as stated: rows with equal Return keep the order their symbols had in
\* the input
C6_StableSort ==
    pc = "done" /\ df_results # <<>> =>
        \A v \in {results[i].Return : i \in 1..Len(results)} :
            FilterSeq(df_results, {i \in 1..Len(df_results) : df_results[i].Return = v})
              = FilterSeq(results, {i \in 1..Len(results) : results[i].Return = v})

\* C7 as stated: the k-th progress report is issued only after the k-th
\* symbol's processing has finished
C7_ProgressAfterProcessing ==
    \A k \in 1..Len(progress) : k <= idx

\* C7 amended: the k-th progress report, carrying (k, N, k-th symbol), is
\* issued before the k-th symbol's provider fetch, once per symbol and in
\* input order
C7_ProgressBeforeProcessing ==
    /\ Len(calls) = idx
    /\ Len(progress) = IF pc = "fetch" THEN idx + 1 ELSE idx
    /\ \A k \in 1..Len(progress) :
          progress[k] = [completed |-> k, total |-> Len(stock_list),
                         symbol |-> stock_list[k]]
    /\ (Returned /\ Weekday(comparison_date) < 5) => Len(progress) = Len(stock_list)

C7_Witness ==
    /\ pc = "fetch"
    /\ Len(progress) = 2
    /\ Len(calls) = 1
    /\ stock_list[1] # stock_list[2]

\* C8 as stated: a returned bar is in the target set iff its Eastern date
\* is the target date, and in the previous set iff its Eastern date is the
\* comparison day
C8_EasternPartition ==
    (pc = "loop" /\ idx >= 1) =>
        LET ticker == History(stock_list[idx], prev_day, comparison_date + 1)
        IN (~ticker.raised) =>
            /\ \A i \in 1..Len(ticker.bars) :
                  ticker.bars[i] \in Range(target_date_data.bars)
                     <=> LocalDate(ticker.bars[i].ts, Eastern) = comparison_date
            /\ TargetTimeRows(target_date_data, comparison_time) # <<>> =>
                  \A i \in 1..Len(ticker.bars) :
                     ticker.bars[i] \in Range(prev_day_data.bars)
                        <=> LocalDate(ticker.bars[i].ts, Eastern) = prev_day

\* C9 as stated: a symbol whose comparison-day close is zero gets no row,
\* so no row holds a return that is not finite
C9_ZeroCloseSkipped ==
    \A row \in RowsOf : row.Return.kind = "fin"

RECURSIVE Dedup(_)
\* each distinct element once, at the position of its first occurrence
Dedup(seq) ==
    IF seq = <<>> THEN <<>>
    ELSE LET init == Dedup(SubSeq(seq, 1, Len(seq) - 1))
         IN IF seq[Len(seq)] \in Range(init) THEN init ELSE Append(init, seq[Len(seq)])

\* C10 as stated: the list main passes on holds each distinct symbol once,
\* at its first position, and the table has no two rows for one symbol
C10_Deduplicated ==
    pc \in {"start", "loop", "fetch", "done"} /\ ParseSymbols(stock_input) # <<>> =>
        /\ stock_list = Dedup(ParseSymbols(stock_input))
        /\ \A i, j \in 1..Len(df_results) :
              i # j => df_results[i].Symbol # df_results[j].Symbol

====
